---- MODULE Spec2Model ----
(***************************************************************************)
(* Model of dashtest.py: the table loaded once at startup (all_data), the  *)
(* column resolver find_column and the Dash callback update_table that     *)
(* filters and sorts a copy of all_data for every change of a control.     *)
(*                                                                         *)
(* Python strings that the code trims, lower-cases or searches are         *)
(* sequences of one-character strings; messages, which the code only       *)
(* returns, are TLA+ strings.                                              *)
(***************************************************************************)
EXTENDS Integers, Sequences, FiniteSets, TLC

VARIABLES all_data, tieOrder, ctl, out, found

vars == <<all_data, tieOrder, ctl, out, found>>

-----------------------------------------------------------------------------
(* Python str: strip(), lower(), ==, in                                     *)

\* str.lower() on one character (the letters the model's names use)
LowerChar(c) ==
    CASE c = "A" -> "a"
      [] c = "B" -> "b"
      [] c = "D" -> "d"
      [] c = "E" -> "e"
      [] c = "G" -> "g"
      [] c = "I" -> "i"
      [] c = "M" -> "m"
      [] c = "N" -> "n"
      [] c = "O" -> "o"
      [] c = "P" -> "p"
      [] c = "R" -> "r"
      [] OTHER -> c

\* str.lower()
Lower(s) == [i \in 1..Len(s) |-> LowerChar(s[i])]

\* the characters str.strip() removes
IsSpace(c) == c = " "

\* str.lstrip()
RECURSIVE LStrip(_)
LStrip(s) == IF s # <<>> /\ IsSpace(Head(s)) THEN LStrip(Tail(s)) ELSE s

\* str.rstrip()
RECURSIVE RStrip(_)
RStrip(s) ==
    IF s # <<>> /\ IsSpace(s[Len(s)]) THEN RStrip(SubSeq(s, 1, Len(s) - 1)) ELSE s

\* str.strip(): drops the leading and the trailing whitespace
Strip(s) == RStrip(LStrip(s))

\* Python's "needle in hay" on strings
Contains(hay, needle) ==
    \E i \in 1..(Len(hay) - Len(needle) + 1) :
        SubSeq(hay, i, i + Len(needle) - 1) = needle

\* Python's None, where the model holds a name or a string
None == <<"None">>

\* truthiness of "c" in "if c and ...": None and "" are falsy
Truthy(c) == c # None /\ c # <<>>

-----------------------------------------------------------------------------
(* find_column                                                              *)

\* the first index in hits, or None's place 0 when there is none
FirstIndex(hits) == IF hits = {} THEN 0 ELSE CHOOSE i \in hits : \A j \in hits : i <= j

\* a faulty find_column: only the substring pass, so an earlier column that
\* merely contains the target wins over a later exact match
find_column_SubstringFirst(columns, target_name) ==
    LET target_lower == Lower(Strip(target_name))
        norm == [i \in 1..Len(columns) |-> Lower(Strip(columns[i]))]
        sub == FirstIndex({i \in 1..Len(columns) :
                    Truthy(columns[i]) /\ Contains(norm[i], target_lower)})
    IN  IF sub # 0 THEN columns[sub] ELSE None

\* lines 165-173: the loop of line 167 returns the first exact match, the
\* loop of line 170 the first column that contains the target
find_column(columns, target_name) ==
    LET target_lower == Lower(Strip(target_name))
        norm == [i \in 1..Len(columns) |-> Lower(Strip(columns[i]))]
        exact == FirstIndex({i \in 1..Len(columns) :
                    Truthy(columns[i]) /\ norm[i] = target_lower})
        sub == FirstIndex({i \in 1..Len(columns) :
                    Truthy(columns[i]) /\ Contains(norm[i], target_lower)})
    IN  IF exact # 0 THEN columns[exact]
        ELSE IF sub # 0 THEN columns[sub]
        ELSE None

-----------------------------------------------------------------------------
(* Values of a DataFrame cell or of a control: null (None / NaN), a number  *)
(* or a string.  One record shape for all three, so any two compare.        *)

NULL == [k |-> "null", n |-> 0, s |-> <<>>]
Num(i) == [k |-> "num", n |-> i, s |-> <<>>]
Str(t) == [k |-> "str", n |-> 0, s |-> t]

\* Python's == between a cell and a value: a null cell equals nothing
PyEq(a, b) == a.k # "null" /\ b.k # "null" /\ a = b

Digit(d) == <<"0", "1", "2", "3", "4", "5", "6", "7", "8", "9">>[d + 1]

\* str(n) for a non-negative integer
RECURSIVE IntToStr(_)
IntToStr(i) == IF i < 10 THEN <<Digit(i)>> ELSE IntToStr(i \div 10) \o <<Digit(i % 10)>>

\* str(v): the text of a value
PyStr(v) ==
    CASE v.k = "null" -> None
      [] v.k = "num" -> IntToStr(v.n)
      [] OTHER -> v.s

\* code points of the characters the model's cells use (for str < str)
CharCode(c) ==
    CASE c = " " -> 32
      [] c = "1" -> 49
      [] c = "2" -> 50
      [] c = "A" -> 65
      [] c = "B" -> 66
      [] OTHER -> 127

\* Python's s < t on strings: lexicographic by code point
RECURSIVE StrLess(_, _)
StrLess(s, t) ==
    IF t = <<>> THEN FALSE
    ELSE IF s = <<>> THEN TRUE
    ELSE IF CharCode(Head(s)) # CharCode(Head(t)) THEN CharCode(Head(s)) < CharCode(Head(t))
    ELSE StrLess(Tail(s), Tail(t))

\* a < b between two non-null values of one type
KeyLess(a, b) == IF a.k = "num" THEN a.n < b.n ELSE StrLess(a.s, b.s)

-----------------------------------------------------------------------------
(* Names and literals of the source                                         *)

PersonInstanceID ==
    <<"P","e","r","s","o","n","_","I","n","s","t","a","n","c","e","_","I","D">>
ArMilitary == <<"A","r","_","M","i","l","i","t","a","r","y">>
NoneSentinel == <<"_","_","N","O","N","E","_","_">>
Asc == <<"a","s","c">>
Desc == <<"d","e","s","c">>

\* the two status messages; U+26A0 U+FE0F stands for the warning-sign emoji
\* the source puts in front of each
ColumnNotFoundMessage == "U+26A0 U+FE0F Column 'Ar_Military' not found."
NoDataMessage == "U+26A0 U+FE0F No data found with current filters."

-----------------------------------------------------------------------------
(* DataFrame operations used by update_table.  A frame is                   *)
(* [columns |-> names in declared order, rows |-> rows in index order],     *)
(* a row the tuple of its cells in column order.                            *)

HasColumn(df, name) == \E i \in 1..Len(df.columns) : df.columns[i] = name

ColumnIndex(df, name) == CHOOSE i \in 1..Len(df.columns) : df.columns[i] = name

\* df[mask]: the rows whose place in the boolean mask holds True, in index order
FilterRows(df, mask) ==
    LET kept == {i \in 1..Len(df.rows) : mask[i]}
        at(r) == CHOOSE i \in kept : Cardinality({j \in kept : j <= i}) = r
    IN  [df EXCEPT !.rows = [r \in 1..Cardinality(kept) |-> df.rows[at(r)]]]

\* df[col].astype("string").str.strip() for one cell: NA stays NA
StrippedText(cell) == IF cell.k = "null" THEN None ELSE Strip(PyStr(cell))

\* the values a sort has to compare: the non-null cells of the key column
SortKeys(df, by) ==
    LET ci == ColumnIndex(df, by)
    IN  {df.rows[i][ci] : i \in {j \in 1..Len(df.rows) : df.rows[j][ci].k # "null"}}

\* Python raises TypeError for "<" between a number and a string
SortRaises(df, by) == \E a \in SortKeys(df, by), b \in SortKeys(df, by) : a.k # b.k

\* a faulty sort_values: the rows whose key is null are dropped instead of
\* placed last
SortValues_DropNulls(df, by, ascending, tie) ==
    LET ci == ColumnIndex(df, by)
        n == Len(df.rows)
        key(i) == df.rows[i][ci]
        nonnull == {i \in 1..n : key(i).k # "null"}
        Before(i, j) ==
            IF KeyLess(key(i), key(j)) THEN ascending
            ELSE IF KeyLess(key(j), key(i)) THEN ~ascending
            ELSE tie[i] < tie[j]
        rank(i) == 1 + Cardinality({j \in nonnull : j # i /\ Before(j, i)})
        at(r) == CHOOSE i \in nonnull : rank(i) = r
    IN  [df EXCEPT !.rows = [r \in 1..Cardinality(nonnull) |-> df.rows[at(r)]]]

\* df.sort_values(by=by, ascending=ascending) with the default kind="quicksort"
\* and na_position="last": the non-null keys in the requested direction, the
\* null keys after them in index order.  quicksort is not a stable sort: the
\* order in which it leaves rows with equal keys is fixed by the build (tie),
\* a ranking of the positions, and is not the index order in general.
SortValues(df, by, ascending, tie) ==
    LET ci == ColumnIndex(df, by)
        n == Len(df.rows)
        key(i) == df.rows[i][ci]
        nonnull == {i \in 1..n : key(i).k # "null"}
        nulls == (1..n) \ nonnull
        Before(i, j) ==
            IF KeyLess(key(i), key(j)) THEN ascending
            ELSE IF KeyLess(key(j), key(i)) THEN ~ascending
            ELSE tie[i] < tie[j]
        rank(i) ==
            IF i \in nonnull
            THEN 1 + Cardinality({j \in nonnull : j # i /\ Before(j, i)})
            ELSE Cardinality(nonnull) + Cardinality({j \in nulls : j <= i})
        at(r) == CHOOSE i \in 1..n : rank(i) = r
    IN  [df EXCEPT !.rows = [r \in 1..n |-> df.rows[at(r)]]]

-----------------------------------------------------------------------------
(* update_table                                                             *)

\* what an invocation hands back: the (data, columns, message) triple, or the
\* exception that leaves the callback
Return(data, columns, message) ==
    [kind |-> "return", data |-> data, columns |-> columns, message |-> message,
     error |-> ""]
Raise(error) ==
    [kind |-> "raise", data |-> <<>>, columns |-> <<>>, message |-> "",
     error |-> error]

\* line 191: emp_id is not None and str(emp_id).strip() != ""
EmpFilterApplies(emp_id) == emp_id # NULL /\ Strip(PyStr(emp_id)) # <<>>

\* a faulty status mask: the selection is compared untrimmed
MilitaryKeep_Untrimmed(military_status, text) ==
    IF ~Truthy(military_status) THEN TRUE
    ELSE IF military_status = NoneSentinel THEN text = None \/ text = <<>>
    ELSE text # None /\ text = military_status

\* lines 198-202: the mask of the status filter on one stripped cell text
MilitaryKeep(military_status, text) ==
    IF ~Truthy(military_status) THEN TRUE
    ELSE IF military_status = NoneSentinel THEN text = None \/ text = <<>>
    ELSE text # None /\ text = Strip(military_status)

\* line 208: ascending = (sort_order == "asc")
Ascending(sort_order) == sort_order = Asc

\* a faulty tail: the empty result is returned like any other, with no message
SortAndReturn_NoEmptyCheck(df, sort_col, sort_order, tie) ==
    IF Truthy(sort_col) /\ HasColumn(df, sort_col) /\ SortRaises(df, sort_col)
    THEN Raise("TypeError")
    ELSE LET sorted == IF Truthy(sort_col) /\ HasColumn(df, sort_col)
                       THEN SortValues(df, sort_col, Ascending(sort_order), tie)
                       ELSE df
         IN  Return(sorted.rows, sorted.columns, "")

\* lines 206-218, on the frame the filters left
SortAndReturn(df, sort_col, sort_order, tie) ==
    IF Truthy(sort_col) /\ HasColumn(df, sort_col) /\ SortRaises(df, sort_col)
    THEN Raise("TypeError")
    ELSE LET sorted == IF Truthy(sort_col) /\ HasColumn(df, sort_col)
                       THEN SortValues(df, sort_col, Ascending(sort_order), tie)
                       ELSE df
         IN  IF sorted.rows = <<>> THEN Return(<<>>, <<>>, NoDataMessage)
             ELSE Return(sorted.rows, sorted.columns, "")

\* a faulty military filter: the column is looked up only when a status is
\* selected
MilitaryFilter_LookupWhenSelected(df, military_status, sort_col, sort_order, tie) ==
    LET ar_col == find_column(df.columns, ArMilitary)
    IN  IF ~Truthy(military_status) THEN SortAndReturn(df, sort_col, sort_order, tie)
        ELSE IF Truthy(ar_col)
        THEN LET ci == ColumnIndex(df, ar_col)
                 ar_series == [i \in 1..Len(df.rows) |-> StrippedText(df.rows[i][ci])]
                 mask == [i \in 1..Len(df.rows) |->
                             MilitaryKeep(military_status, ar_series[i])]
             IN  SortAndReturn(FilterRows(df, mask), sort_col, sort_order, tie)
        ELSE Return(<<>>, <<>>, ColumnNotFoundMessage)

\* lines 194-204, on the frame the employee filter left
MilitaryFilter(df, military_status, sort_col, sort_order, tie) ==
    LET ar_col == find_column(df.columns, ArMilitary)
    IN  IF Truthy(ar_col)
        THEN LET ci == ColumnIndex(df, ar_col)
                 ar_series == [i \in 1..Len(df.rows) |-> StrippedText(df.rows[i][ci])]
                 mask == [i \in 1..Len(df.rows) |->
                             MilitaryKeep(military_status, ar_series[i])]
             IN  SortAndReturn(FilterRows(df, mask), sort_col, sort_order, tie)
        ELSE Return(<<>>, <<>>, ColumnNotFoundMessage)

\* lines 187-218: the whole callback on frame data
update_table(data, emp_id, military_status, sort_col, sort_order, tie) ==
    IF EmpFilterApplies(emp_id)
    THEN IF ~HasColumn(data, PersonInstanceID) THEN Raise("KeyError")
         ELSE LET ci == ColumnIndex(data, PersonInstanceID)
                  mask == [i \in 1..Len(data.rows) |-> PyEq(data.rows[i][ci], emp_id)]
              IN  MilitaryFilter(FilterRows(data, mask), military_status,
                                 sort_col, sort_order, tie)
    ELSE MilitaryFilter(data, military_status, sort_col, sort_order, tie)

-----------------------------------------------------------------------------
(* The tables the stored procedure may return, and the control values       *)

\* most rows a loaded table has
MaxRows == 2

ArMilitaryStatus ==
    <<"a","r","_","m","i","l","i","t","a","r","y","_","s","t","a","t","u","s">>
Grade == <<"G","r","a","d","e">>

Ids == {Num(1), Num(2)}

\* result-set shapes: each column's name and the values its cells take.  The
\* status column comes under its own name, renamed, with numbers among its
\* strings, or not at all; Person_Instance_ID may be missing too.
Schemas ==
    { <<[name |-> PersonInstanceID, cells |-> Ids],
        [name |-> ArMilitary, cells |-> {NULL, Str(<<" ">>), Str(<<" ", "A">>)}]>>,
      <<[name |-> PersonInstanceID, cells |-> {Num(1)}],
        [name |-> ArMilitaryStatus, cells |-> {Str(<<" ", "A">>), Num(1)}]>>,
      <<[name |-> PersonInstanceID, cells |-> Ids],
        [name |-> Grade, cells |-> {Num(1)}]>>,
      <<[name |-> Grade, cells |-> {Num(1)}],
        [name |-> ArMilitary, cells |-> {NULL, Str(<<" ", "A">>)}]>>,
      <<[name |-> Grade, cells |-> {Num(1)}]>> }

RowsOf(schema) ==
    {row \in [1..Len(schema) -> UNION {schema[i].cells : i \in 1..Len(schema)}] :
        \A i \in 1..Len(schema) : row[i] \in schema[i].cells}

SeqsUpTo(S, n) == UNION {[1..m -> S] : m \in 0..n}

\* what fetch_all_data may load
LoadedTables ==
    UNION { {[columns |-> [i \in 1..Len(schema) |-> schema[i].name], rows |-> rows] :
                rows \in SeqsUpTo(RowsOf(schema), MaxRows)} : schema \in Schemas }

\* the orders in which the build's quicksort may leave equal keys, as rankings
\* of the positions: the index order (what a stable sort gives) and its reverse
TieOrders == {[i \in 1..MaxRows |-> i], [i \in 1..MaxRows |-> MaxRows + 1 - i]}

Sessions == {"s1", "s2"}

EmpIds == {NULL, Str(<<" ">>), Num(1)}
MilitaryValues == {None, NoneSentinel, <<"A", " ">>}
SortOrders == {None, Asc, Desc}
\* the sort-column dropdown offers the loaded columns (line 120); "Rank" is
\* no column of any table
Rank == <<"R","a","n","k">>
SortColumns == {None, Rank} \cup {all_data.columns[i] : i \in 1..Len(all_data.columns)}

-----------------------------------------------------------------------------
(* State machine                                                            *)

\* lines 88-138: the controls as the layout creates them
InitialControls ==
    [emp_id |-> NULL, military_status |-> None, sort_col |-> None, sort_order |-> Asc]

\* lines 145-148: the table as the layout creates it
InitialView(data) ==
    [kind |-> "layout", data |-> data.rows, columns |-> data.columns,
     message |-> "", error |-> ""]

\* a faulty start: the invocation starts from the rows the session shows
CallbackData_ShownRows(s) == [columns |-> out[s].columns, rows |-> out[s].data]

\* line 188: the frame an invocation starts from
CallbackData(s) == all_data

\* lines 178-187: Dash calls update_table with the session's current controls
\* and replaces the three outputs with what it returns
Invoke(s, c) ==
    /\ ctl' = [ctl EXCEPT ![s] = c]
    /\ out' = [out EXCEPT ![s] =
                 update_table(CallbackData(s), c.emp_id, c.military_status,
                              c.sort_col, c.sort_order, tieOrder)]
    /\ UNCHANGED <<all_data, tieOrder, found>>

SetEmpId(s, v) == Invoke(s, [ctl[s] EXCEPT !.emp_id = v])
SetMilitaryFilter(s, v) == Invoke(s, [ctl[s] EXCEPT !.military_status = v])
SetSortColumn(s, v) == Invoke(s, [ctl[s] EXCEPT !.sort_col = v])
SetSortOrder(s, v) == Invoke(s, [ctl[s] EXCEPT !.sort_order = v])

\* find_column(all_data, found.target), called on its own
FindColumn ==
    /\ ~found.called
    /\ found' = [found EXCEPT !.result = find_column(all_data.columns, found.target),
                              !.called = TRUE]
    /\ UNCHANGED <<all_data, tieOrder, ctl, out>>

NoCall == [target |-> None, result |-> None, called |-> FALSE]

Init ==
    /\ all_data \in LoadedTables
    /\ tieOrder \in TieOrders
    /\ ctl = [s \in Sessions |-> InitialControls]
    /\ out = [s \in Sessions |-> InitialView(all_data)]
    /\ found = NoCall

\* one browser session changing its controls
Next ==
    \/ \E v \in EmpIds : SetEmpId("s1", v)
    \/ \E v \in MilitaryValues : SetMilitaryFilter("s1", v)
    \/ \E v \in SortColumns : SetSortColumn("s1", v)
    \/ \E v \in SortOrders : SetSortOrder("s1", v)

Spec == Init /\ [][Next]_vars

-----------------------------------------------------------------------------
(* Several sessions against one loaded table                                *)

SessionSchemas ==
    { <<[name |-> PersonInstanceID, cells |-> Ids],
        [name |-> ArMilitary, cells |-> {NULL, Str(<<" ", "A">>)}]>> }

SessionTables ==
    UNION { {[columns |-> [i \in 1..Len(schema) |-> schema[i].name], rows |-> rows] :
                rows \in SeqsUpTo(RowsOf(schema), MaxRows)} : schema \in SessionSchemas }

InitSessions ==
    /\ all_data \in SessionTables
    /\ tieOrder \in TieOrders
    /\ ctl = [s \in Sessions |-> InitialControls]
    /\ out = [s \in Sessions |-> InitialView(all_data)]
    /\ found = NoCall

NextSessions ==
    \E s \in Sessions :
        \/ \E v \in {NULL, Num(1)} : SetEmpId(s, v)
        \/ \E v \in {None, <<"A", " ">>} : SetMilitaryFilter(s, v)
        \/ \E v \in {None, PersonInstanceID} : SetSortColumn(s, v)
        \/ \E v \in {Asc, Desc} : SetSortOrder(s, v)

SpecSessions == InitSessions /\ [][NextSessions]_vars

-----------------------------------------------------------------------------
(* find_column on its own: column lists and targets drawn from short names  *)

\* most columns of a column list
MaxCols == 2

ResolveNames ==
    { <<>>, <<" ">>, <<"a">>, <<"A", " ">>, <<"a", "b">>, <<"b", "A">>, <<"b">> }

InitResolve ==
    /\ all_data \in {[columns |-> cols, rows |-> <<>>] :
                        cols \in SeqsUpTo(ResolveNames, MaxCols)}
    /\ tieOrder \in {[i \in 1..MaxRows |-> i]}
    /\ ctl = [s \in Sessions |-> InitialControls]
    /\ out = [s \in Sessions |-> InitialView(all_data)]
    /\ found \in {[target |-> t, result |-> None, called |-> FALSE] : t \in ResolveNames}

NextResolve == FindColumn

SpecResolve == InitResolve /\ [][NextResolve]_vars

-----------------------------------------------------------------------------
(* Claims about update_table, stated on session s1 of Spec                  *)

Controls == ctl["s1"]
Result == out["s1"]
Invoked == Result.kind # "layout"
Returned == Result.kind = "return"

\* the column of all_data that stands for Ar_Military, if any
StatusColumn == find_column(all_data.columns, ArMilitary)
Resolved == StatusColumn # None

\* emp_id absent or blank
NoEmpId == Controls.emp_id.k = "null"
             \/ (Controls.emp_id.k = "str" /\ Strip(Controls.emp_id.s) = <<>>)

\* the row's trimmed status text; None for a null status
TrimmedStatus(row) ==
    LET cell == row[ColumnIndex(all_data, StatusColumn)]
    IN  IF cell.k = "null" THEN None ELSE Strip(PyStr(cell))

\* the rows the two filters are specified to keep
Selected(row) ==
    /\ NoEmpId \/ row[ColumnIndex(all_data, PersonInstanceID)] = Controls.emp_id
    /\ \/ Controls.military_status = None
       \/ /\ Controls.military_status = NoneSentinel
          /\ TrimmedStatus(row) \in {None, <<>>}
       \/ /\ Controls.military_status \notin {None, NoneSentinel}
          /\ TrimmedStatus(row) = Strip(Controls.military_status)

\* C1: on a table with Person_Instance_ID and a resolvable Ar_Military column,
\* with no sort column chosen, update_table returns exactly the original rows
\* that pass the employee filter and the status filter, in load order.
C1_FilteredRowsInLoadOrder ==
    (Invoked /\ HasColumn(all_data, PersonInstanceID) /\ Resolved
        /\ Controls.sort_col = None)
    => (Returned /\ Result.data = SelectSeq(all_data.rows, Selected))

\* both filters active, some rows kept and some removed
C1_Witness ==
    /\ Invoked /\ HasColumn(all_data, PersonInstanceID) /\ Resolved
    /\ Controls.sort_col = None
    /\ Controls.emp_id = Num(1)
    /\ Controls.military_status = <<"A", " ">>
    /\ Result.data # <<>>
    /\ Len(Result.data) < Len(all_data.rows)

\* C2 as stated: whenever Ar_Military cannot be resolved, every invocation
\* returns ([], [], "Column 'Ar_Military' not found."), an employee ID given
\* or not.
C2_Original ==
    (Invoked /\ ~Resolved)
    => Result = Return(<<>>, <<>>, "Column 'Ar_Military' not found.")

\* C2 as amended: whenever Ar_Military cannot be resolved, an invocation whose
\* employee filter is off (emp_id absent or blank) or whose table has
\* Person_Instance_ID returns ([], [], the column-not-found message with the
\* warning sign in front), whatever the status, sort column and sort order;
\* one with an employee ID on a table without Person_Instance_ID raises
\* KeyError before the column is looked up.
C2_NotFoundTriple ==
    (Invoked /\ ~Resolved)
    => IF NoEmpId \/ HasColumn(all_data, PersonInstanceID)
       THEN Result = Return(<<>>, <<>>, ColumnNotFoundMessage)
       ELSE Result = Raise("KeyError")

\* an employee ID is given, no status is selected, the table has rows and
\* Person_Instance_ID but no status column
C2_Witness ==
    /\ Invoked /\ ~Resolved
    /\ Controls.emp_id = Num(1)
    /\ Controls.military_status = None
    /\ HasColumn(all_data, PersonInstanceID)
    /\ all_data.rows # <<>>
    /\ Result = Return(<<>>, <<>>, ColumnNotFoundMessage)

\* C3 as stated: when the column is resolved and the filters leave no row, the
\* rows are empty and the message is "No data found with current filters.";
\* that message never comes with an unresolved column.
C3_Original ==
    /\ (Returned /\ Resolved /\ SelectSeq(all_data.rows, Selected) = <<>>)
        => (Result.data = <<>> /\ Result.message = "No data found with current filters.")
    /\ (Returned /\ Result.message = "No data found with current filters.") => Resolved

\* C3 as amended: the same, the message being the no-data message with the
\* warning sign in front.
C3_NoDataMessage ==
    /\ (Returned /\ Resolved /\ SelectSeq(all_data.rows, Selected) = <<>>)
        => (Result.data = <<>> /\ Result.message = NoDataMessage)
    /\ (Returned /\ Result.message = NoDataMessage) => Resolved

\* an employee ID that matches no row of a table that has rows
C3_Witness ==
    /\ Returned /\ Resolved
    /\ all_data.rows # <<>>
    /\ Controls.emp_id = Num(1)
    /\ Controls.sort_col = PersonInstanceID
    /\ Result.data = <<>>
    /\ Result.message = NoDataMessage

\* how often row x occurs in a sequence of rows
Count(rows, x) == Cardinality({i \in 1..Len(rows) : rows[i] = x})

Rows(rows) == {rows[i] : i \in 1..Len(rows)}

\* what the same invocation returns with no sort column chosen
Unsorted ==
    update_table(all_data, Controls.emp_id, Controls.military_status, None,
                 Controls.sort_order, tieOrder)

\* C4: the rows update_table returns are a sub-collection of the original
\* rows (none new, none more often than in the original), and with a sort
\* column chosen they are the same collection as with none.
C4_SubCollection ==
    Returned =>
        /\ \A x \in Rows(Result.data) : Count(Result.data, x) <= Count(all_data.rows, x)
        /\ Unsorted.kind = "return"
        /\ \A x \in Rows(Result.data) \cup Rows(Unsorted.data) :
               Count(Result.data, x) = Count(Unsorted.data, x)

\* a sort that moved rows: the sorted rows differ from the unsorted ones
C4_Witness ==
    /\ Returned
    /\ Truthy(Controls.sort_col) /\ HasColumn(all_data, Controls.sort_col)
    /\ Len(Result.data) >= 2
    /\ Result.data # Unsorted.data

\* C6 as stated: on a table with Person_Instance_ID every invocation returns a
\* (rows, columns, message) triple and raises nothing.
C6_Claim == (Invoked /\ HasColumn(all_data, PersonInstanceID)) => Returned

\* the sort key of a row under the chosen sort column
SortKey(row) == row[ColumnIndex(all_data, Controls.sort_col)]

Sorting == Truthy(Controls.sort_col) /\ HasColumn(all_data, Controls.sort_col)

\* the rows of a sequence whose sort key is v
WithKey(rows, v) == LET Is(row) == SortKey(row) = v IN SelectSeq(rows, Is)

\* the non-null keys of rows run in the given direction
InDirection(rows, ascending) ==
    \A p \in 1..Len(rows), q \in 1..Len(rows) :
        (p < q /\ SortKey(rows[p]).k # "null" /\ SortKey(rows[q]).k # "null")
        => IF ascending THEN ~KeyLess(SortKey(rows[q]), SortKey(rows[p]))
           ELSE ~KeyLess(SortKey(rows[p]), SortKey(rows[q]))

\* C9 as stated: with a sort column of the table and a direction chosen, the
\* returned rows are ordered by the column in that direction, and rows with
\* equal sort values keep the relative order of the load order.
C9_Claim ==
    (Returned /\ Sorting /\ Controls.sort_order \in {Asc, Desc})
    => /\ InDirection(Result.data, Controls.sort_order = Asc)
       /\ \A row \in Rows(Result.data) :
              WithKey(Result.data, SortKey(row)) = WithKey(Unsorted.data, SortKey(row))

\* C10 as stated: unless the direction is explicitly descending (so also when
\* it is absent), a chosen sort column sorts ascending.
C10_Claim ==
    (Returned /\ Sorting /\ Controls.sort_order # Desc)
    => InDirection(Result.data, TRUE)

-----------------------------------------------------------------------------
(* Claim about sessions, stated on SpecSessions                             *)

\* what session s's controls yield on the loaded table
FirstInvocation(s) ==
    update_table(all_data, ctl[s].emp_id, ctl[s].military_status, ctl[s].sort_col,
                 ctl[s].sort_order, tieOrder)

\* C5: under any interleaving of the sessions' invocations all_data is never
\* changed, and what each session shows is what its current control values
\* yield on the loaded table as a first invocation.
C5_SessionsIndependent ==
    /\ [](\A s \in Sessions : out[s].kind # "layout" => out[s] = FirstInvocation(s))
    /\ [][all_data' = all_data]_vars

\* both sessions have filtered, one by employee and one by status with a
\* descending sort, and show different rows
C5_Witness ==
    /\ out["s1"].kind = "return" /\ out["s2"].kind = "return"
    /\ ctl["s1"].emp_id = Num(1) /\ ctl["s1"].military_status = None
    /\ ctl["s2"].emp_id = NULL /\ ctl["s2"].military_status = <<"A", " ">>
    /\ ctl["s2"].sort_col = PersonInstanceID /\ ctl["s2"].sort_order = Desc
    /\ out["s1"].data # <<>> /\ out["s2"].data # <<>>
    /\ out["s1"].data # out["s2"].data
    /\ Len(out["s2"].data) > Len(out["s1"].data)

-----------------------------------------------------------------------------
(* Claims about find_column, stated on SpecResolve                          *)

Columns == all_data.columns
Normal(name) == Lower(Strip(name))
ExactAt(i) == Normal(Columns[i]) = Normal(found.target)
SubAt(i) == Contains(Normal(Columns[i]), Normal(found.target))
Named(i) == Columns[i] # <<>>

\* C7 as stated: the first column whose normalized name equals the normalized
\* target; failing any, the first whose normalized name contains it; else
\* not-found.
C7_Original ==
    found.called =>
        IF \E i \in 1..Len(Columns) : ExactAt(i)
        THEN \E i \in 1..Len(Columns) :
                /\ ExactAt(i) /\ found.result = Columns[i]
                /\ \A j \in 1..(i - 1) : ~ExactAt(j)
        ELSE IF \E i \in 1..Len(Columns) : SubAt(i)
        THEN \E i \in 1..Len(Columns) :
                /\ SubAt(i) /\ found.result = Columns[i]
                /\ \A j \in 1..(i - 1) : ~SubAt(j)
        ELSE found.result = None

\* C7 as amended: the same two passes over the columns whose name is not
\* empty: the first such column whose normalized name equals the normalized
\* target; failing any, the first such column whose normalized name contains
\* it; else not-found.
C7_TwoPasses ==
    found.called =>
        IF \E i \in 1..Len(Columns) : Named(i) /\ ExactAt(i)
        THEN \E i \in 1..Len(Columns) :
                /\ Named(i) /\ ExactAt(i) /\ found.result = Columns[i]
                /\ \A j \in 1..(i - 1) : ~(Named(j) /\ ExactAt(j))
        ELSE IF \E i \in 1..Len(Columns) : Named(i) /\ SubAt(i)
        THEN \E i \in 1..Len(Columns) :
                /\ Named(i) /\ SubAt(i) /\ found.result = Columns[i]
                /\ \A j \in 1..(i - 1) : ~(Named(j) /\ SubAt(j))
        ELSE found.result = None

\* an exact match declared after a column that only contains the target
C7_Witness ==
    /\ found.called
    /\ Len(Columns) = 2
    /\ SubAt(1) /\ ~ExactAt(1) /\ ExactAt(2)
    /\ Normal(found.target) # <<>>
    /\ found.result = Columns[2]

\* C8 as stated: find_column never returns a column whose normalized name is
\* empty, whatever the target.
C8_Claim == (found.called /\ found.result # None) => Normal(found.result) # <<>>

====
